---- MODULE Spec2Model ----
(***************************************************************************)
(* add-status: bulk update of the "Current Status" custom field of Jira    *)
(* tickets.  The model follows src/src/index.ts (the command handlers and  *)
(* the two batch loops), src/src/auth.ts (the token check) and the Jira    *)
(* client jira.ts (src/unnamed/part_000, lines 1-130).                     *)
(*                                                                         *)
(* Strings are sequences of one-character strings, so that toLowerCase,    *)
(* trim, split and concatenation are computed as the code computes them.   *)
(***************************************************************************)
EXTENDS Integers, Sequences, FiniteSets, TLC

(***************************************************************************)
(* Bounds of the model.                                                    *)
(***************************************************************************)
\* longest result list the search returns in the model
MaxIssues == 3

(***************************************************************************)
(* String primitives of the JavaScript runtime.                            *)
(***************************************************************************)
\* white space removed by String.prototype.trim (the characters used here)
WhiteSpace == {" ", "\t", "\n"}

\* String.prototype.toLowerCase on one character (letters the model uses)
LowerChar(c) ==
    CASE c = "A" -> "a"
      [] c = "E" -> "e"
      [] c = "I" -> "i"
      [] c = "K" -> "k"
      [] c = "L" -> "l"
      [] c = "N" -> "n"
      [] c = "O" -> "o"
      [] c = "P" -> "p"
      [] c = "S" -> "s"
      [] c = "Y" -> "y"
      [] OTHER -> c

\* String.prototype.toLowerCase
ToLowerCase(s) == [k \in 1..Len(s) |-> LowerChar(s[k])]

RECURSIVE TrimStart(_)
\* drops the leading white space
TrimStart(s) ==
    IF s # <<>> /\ Head(s) \in WhiteSpace THEN TrimStart(Tail(s)) ELSE s

RECURSIVE TrimEnd(_)
\* drops the trailing white space
TrimEnd(s) ==
    IF s # <<>> /\ s[Len(s)] \in WhiteSpace
    THEN TrimEnd(SubSeq(s, 1, Len(s) - 1))
    ELSE s

\* String.prototype.trim
Trim(s) == TrimEnd(TrimStart(s))

\* the decimal digit characters
Digits == <<"0", "1", "2", "3", "4", "5", "6", "7", "8", "9">>

RECURSIVE PadNumber(_, _)
\* n in decimal, zero-padded on the left to w digits
PadNumber(n, w) ==
    IF w = 0 THEN <<>> ELSE PadNumber(n \div 10, w - 1) \o <<Digits[(n % 10) + 1]>>

\* Date.prototype.toISOString: YYYY-MM-DDTHH:mm:ss.sssZ (UTC)
ToISOString(d) ==
    PadNumber(d.year, 4) \o <<"-">> \o PadNumber(d.month, 2) \o <<"-">>
      \o PadNumber(d.day, 2) \o <<"T">>
      \o PadNumber(d.hour, 2) \o <<":">> \o PadNumber(d.minute, 2) \o <<":">>
      \o <<"0", "0", ".", "0", "0", "0", "Z">>

RECURSIVE SplitFirst(_, _)
\* s.split(sep)[0]: the part of s before the first occurrence of sep
SplitFirst(s, sep) ==
    IF s = <<>> \/ Head(s) = sep THEN <<>>
    ELSE <<Head(s)>> \o SplitFirst(Tail(s), sep)

(***************************************************************************)
(* JSON values of an issue's field map, and string | null.                 *)
(***************************************************************************)
JNull == [t |-> "null", v |-> <<>>]
JNumber == [t |-> "number", v |-> <<>>]
JString(s) == [t |-> "string", v |-> s]

\* typeof value === 'string'
IsString(x) == x.t = "string"

\* JavaScript truthiness of a string | null value
Truthy(x) == IsString(x) /\ x.v # <<>>

(***************************************************************************)
(* jira.ts: pure helpers.                                                  *)
(***************************************************************************)
\* the name getCurrentStatusFieldId looks for
CurrentStatusName == "Current Status"

\* the predicate of fields.find: field.name === 'Current Status' && field.custom
IsCurrentStatusField(field) == field.name = CurrentStatusName /\ field.custom

\* Array.prototype.find: the first matching field, as a sequence of 0 or 1 fields
FindCurrentStatusField(fields) ==
    LET hits == {k \in 1..Len(fields) : IsCurrentStatusField(fields[k])}
    IN  IF hits = {} THEN <<>>
        ELSE <<fields[CHOOSE k \in hits : \A m \in hits : k <= m]>>

\* the module-level cache starts as null
NoFieldId == "null"

\* if (currentStatusFieldId): null and the empty string are falsy
FieldIdCached(id) == id # NoFieldId /\ id # ""

\* getCurrentStatus: issue.fields[fieldId] when it is a string, else null
GetCurrentStatus(issue, fieldId) ==
    LET value == issue.fields[fieldId]
    IN  IF IsString(value) THEN value ELSE JNull

\* new Date().toISOString().split('T')[0]
Today(now) == SplitFirst(ToISOString(now), "T")

\* buildNewStatus without the trim() test of line 125
BuildNewStatus_NoTrim(update, current, addDatePrefix, now) ==
    LET newLine == IF addDatePrefix
                   THEN Today(now) \o <<":", " ">> \o update
                   ELSE update
    IN  IF Truthy(current)
        THEN newLine \o <<"\n">> \o current.v
        ELSE newLine

\* buildNewStatus; now is the clock read by new Date()
BuildNewStatus(update, current, addDatePrefix, now) ==
    LET newLine == IF addDatePrefix
                   THEN Today(now) \o <<":", " ">> \o update
                   ELSE update
    IN  IF Truthy(current) /\ Trim(current.v) # <<>>
        THEN newLine \o <<"\n">> \o current.v
        ELSE newLine

(***************************************************************************)
(* index.ts: pure helpers.                                                 *)
(***************************************************************************)
\* prompt: resolve(answer.toLowerCase().trim())
NormalizeAnswer(raw) == Trim(ToLowerCase(raw))

\* IsYes with case 'yes' left out
IsYes_OnlyY(a) == a \in {<<"y">>}

\* IsYes taking the empty line as yes
IsYes_EmptyLine(a) == a \in {<<"y">>, <<"y", "e", "s">>, <<>>}

\* case 'y': case 'yes':
IsYes(a) == a \in {<<"y">>, <<"y", "e", "s">>}

\* IsAll with case 'all' left out
IsAll_OnlyA(a) == a \in {<<"a">>}

\* case 'a': case 'all':
IsAll(a) == a \in {<<"a">>, <<"a", "l", "l">>}

\* IsSkipAll with case 'skip all' left out
IsSkipAll_NoSkipAll(a) == a \in {<<"s">>, <<"s", "k", "i", "p">>}

\* case 's': case 'skip': case 'skip all':
IsSkipAll(a) ==
    a \in {<<"s">>, <<"s", "k", "i", "p">>,
           <<"s", "k", "i", "p", " ", "a", "l", "l">>}

\* the text displayTicketUpdate prints for a falsy current value
EmptyText == <<"(", "e", "m", "p", "t", "y", ")">>

\* displayTicketUpdate: what is printed for one ticket
DisplayTicketUpdate(issue, current, new) ==
    [key      |-> issue.key,
     current  |-> IF Truthy(current) THEN current.v ELSE EmptyText,
     proposed |-> new]

\* ProcessorFor with the --dry-run flag ignored
ProcessorFor_IgnoresFlag(isDryRun) == "loop"

\* handleUpdate 206-210: which batch loop runs
ProcessorFor(isDryRun) == IF isDryRun THEN "dry" ELSE "loop"

(***************************************************************************)
(* Inputs of the model: what the operator, the clock and the Jira server   *)
(* can supply.                                                             *)
(***************************************************************************)
\* the <status> argument
StatusUpdates == {<<"O", "K">>}

\* the clock around a UTC midnight
Clocks ==
    << [year |-> 2026, month |-> 1, day |-> 27, hour |-> 23, minute |-> 59],
       [year |-> 2026, month |-> 1, day |-> 28, hour |-> 0, minute |-> 0] >>

\* field identifiers the server knows
FieldIds == {"customfield_10", "customfield_20", "labels"}

\* responses of GET /field
FieldTables ==
    { << [id |-> "labels", name |-> "Labels", custom |-> FALSE],
         [id |-> "customfield_10", name |-> "Current Status", custom |-> TRUE] >>,
      << [id |-> "labels", name |-> "Current Status", custom |-> FALSE],
         [id |-> "customfield_20", name |-> "Current Status", custom |-> TRUE],
         [id |-> "customfield_10", name |-> "Current Status", custom |-> TRUE] >>,
      << [id |-> "labels", name |-> "Current Status", custom |-> FALSE],
         [id |-> "customfield_10", name |-> "Sprint", custom |-> TRUE] >> }

\* values the tracked field of a returned issue can hold
FieldValues == {JNull, JString(<<"o", "l", "d">>)}

\* the key of the issue at position p of the result list
IssueKey(p) == <<"RM", p>>

\* one issue of a search response that asked for field id
IssueAt(p, id, value) ==
    [key    |-> IssueKey(p),
     fields |-> [f \in FieldIds |-> IF f = id THEN value ELSE JNumber]]

\* the result lists of GET /search that asked for field id
IssueLists(id) ==
    UNION { { [p \in 1..n |-> IssueAt(p, id, vals[p])] :
                vals \in [1..n -> FieldValues] } : n \in 0..MaxIssues }

\* lines the operator types at the prompt
RawAnswers ==
    { <<"y">>, <<"Y", "E", "S">>, <<" ", "a">>, <<"A", "l", "l">>,
      <<"s">>, <<"S", "k", "i", "p", " ">>,
      <<"s", "k", "i", "p", " ", "A", "L", "L", "\n">>,
      <<"n">>, <<>>, <<"s", "k", "i", "p", " ", " ", "a", "l", "l">> }

\* the answer variable outside the scope of an iteration
NoAnswer == <<"none">>

(***************************************************************************)
(* State.                                                                  *)
(***************************************************************************)
VARIABLES
    pc,                   \* position of the update command
    exitCode,             \* exit status, meaningful when pc = "exited"
    tokenValid,           \* cloudflared holds a valid token for Jira
    now,                  \* the clock
    dryRun, datePrefix, statusUpdate,      \* the command line
    currentStatusFieldId, \* jira.ts cache
    fieldId,              \* const fieldId of the function awaiting getCurrentStatusFieldId
    caller,               \* the function resumed by a GET /field response
    idLog,                \* the field identifier used by each search, read and write
    inflight,             \* HTTP requests awaiting their response
    sent,                 \* HTTP requests sent so far, by kind
    authChecks,           \* calls of isAuthenticated
    authResult, lookupResult, searchResult, \* how each set-up step ended
    issues,               \* the list searchIssues returned
    idx,                  \* position of the for-of loop in issues
    applyAll, skipAll, updatedCount, skippedCount,
    currentStatus, newStatus, answer,      \* constants of one iteration
    via,                  \* which of the three update blocks is running
    fetches,              \* per position: calls of getCurrentStatus
    shown,                \* per position: what displayTicketUpdate printed
    prompts,              \* per position: prompts issued
    writes,               \* per position: calls of updateCurrentStatus
    results,              \* per position: how each updateCurrentStatus call ended
    failures,             \* per position: keys printed by spinner.fail
    summary,              \* summaries printed by processTicketsInteractive
    dryReport             \* counts printed by processTicketsDryRun

env      == <<tokenValid, now>>
opts     == <<dryRun, datePrefix, statusUpdate>>
repo     == <<currentStatusFieldId, inflight, sent>>
ids      == <<fieldId, caller, idLog>>
setup    == <<authChecks, authResult, lookupResult, searchResult>>
latches  == <<applyAll, skipAll>>
counters == <<updatedCount, skippedCount>>
locals   == <<currentStatus, newStatus, answer, via>>
hist     == <<fetches, shown, prompts, writes, results, failures>>
out      == <<summary, dryReport>>
vars     == <<pc, exitCode, env, opts, repo, ids, setup, issues, idx, latches,
              counters, locals, hist, out>>

N == Len(issues)

Init ==
    /\ pc = "start"
    /\ exitCode = 0
    /\ tokenValid \in BOOLEAN
    /\ now = Clocks[1]
    /\ dryRun \in BOOLEAN
    /\ datePrefix \in BOOLEAN
    /\ statusUpdate \in StatusUpdates
    /\ currentStatusFieldId = NoFieldId
    /\ fieldId = NoFieldId
    /\ caller = "none"
    /\ idLog = <<>>
    /\ inflight = {}
    /\ sent = [field |-> 0, search |-> 0, put |-> 0]
    /\ authChecks = 0
    /\ authResult = "none"
    /\ lookupResult = "none"
    /\ searchResult = "none"
    /\ issues = <<>>
    /\ idx = 1
    /\ applyAll = FALSE
    /\ skipAll = FALSE
    /\ updatedCount = 0
    /\ skippedCount = 0
    /\ currentStatus = JNull
    /\ newStatus = <<>>
    /\ answer = NoAnswer
    /\ via = "none"
    /\ fetches = <<>>
    /\ shown = <<>>
    /\ prompts = <<>>
    /\ writes = <<>>
    /\ results = <<>>
    /\ failures = <<>>
    /\ summary = <<>>
    /\ dryReport = <<>>

(***************************************************************************)
(* Building blocks of the actions.                                         *)
(***************************************************************************)
\* an HTTP request of jiraFetch
Request(kind, key, id, value) ==
    [kind |-> kind, key |-> key, fieldId |-> id, value |-> value]

NoKey == <<"RM", 0>>

\* jiraFetch, up to the call of fetch: getToken, then the request is sent
JiraFetchSend(req) ==
    /\ tokenValid
    /\ inflight' = inflight \cup {req}
    /\ sent' = [sent EXCEPT ![req.kind] = @ + 1]

\* the process ends with this exit status
Exit(code) ==
    /\ pc' = "exited"
    /\ exitCode' = code

\* handleUpdate's catch block printing the error without process.exit(1)
HandleUpdateCatch_NoExitCode == Exit(0)

\* handleUpdate's catch block: spinner.fail, console.error, process.exit(1)
HandleUpdateCatch == Exit(1)

\* getCurrentStatusFieldId 40-44 called by function c: the cache is empty and c
\* is not being resumed with the identifier, so GET /field is needed
MustLookup(c) == caller # c /\ ~FieldIdCached(currentStatusFieldId)

\* the identifier getCurrentStatusFieldId hands to function c
ResolvedId(c) == IF caller = c THEN fieldId ELSE currentStatusFieldId

\* where function c is when it awaits getCurrentStatusFieldId
ResumePc(c) ==
    CASE c = "search" -> "search"
      [] c = "fetch" -> "loop"
      [] c = "dryFetch" -> "dry"
      [] OTHER -> "update"

\* getCurrentStatusFieldId without the assignment to the cache
CacheAfterLookup_NotStored(old, id) == old

\* getCurrentStatusFieldId 57: currentStatusFieldId = currentStatusField.id
CacheAfterLookup(old, id) == id

\* one entry of idLog
IdUse(op, pos, id) == [op |-> op, pos |-> pos, id |-> id]

\* the per-position records of a batch over n issues
StartBatch(n) ==
    /\ idx' = 1
    /\ applyAll' = FALSE
    /\ skipAll' = FALSE
    /\ updatedCount' = 0
    /\ skippedCount' = 0
    /\ fetches' = [p \in 1..n |-> 0]
    /\ shown' = [p \in 1..n |-> <<>>]
    /\ prompts' = [p \in 1..n |-> 0]
    /\ writes' = [p \in 1..n |-> <<>>]
    /\ results' = [p \in 1..n |-> <<>>]
    /\ failures' = [p \in 1..n |-> <<>>]

\* the for-of loop goes on to the next issue; the iteration's constants die
NextIssue ==
    /\ idx' = idx + 1
    /\ currentStatus' = JNull
    /\ newStatus' = <<>>
    /\ answer' = NoAnswer
    /\ via' = "none"

(***************************************************************************)
(* handleUpdate, up to the batch loop.                                     *)
(***************************************************************************)
\* HandleUpdateAuth printing "Not authenticated" without process.exit(1)
HandleUpdateAuth_NoExit ==
    /\ pc = "start"
    /\ authChecks' = authChecks + 1
    /\ authResult' = IF tokenValid THEN "ok" ELSE "failed"
    /\ pc' = "fieldId"
    /\ UNCHANGED <<exitCode, env, opts, ids, repo, lookupResult, searchResult, issues,
                   idx, latches, counters, locals, hist, out>>

\* index.ts 185-190: if (!isAuthenticated()) { ...; process.exit(1) }
HandleUpdateAuth ==
    /\ pc = "start"
    /\ authChecks' = authChecks + 1
    /\ IF tokenValid
       THEN /\ authResult' = "ok"
            /\ pc' = "fieldId"
            /\ exitCode' = exitCode
       ELSE /\ authResult' = "failed"
            /\ Exit(1)
    /\ UNCHANGED <<env, opts, ids, repo, lookupResult, searchResult, issues, idx,
                   latches, counters, locals, hist, out>>

\* searchIssues 65 -> getCurrentStatusFieldId 40-44: cache hit, or GET /field
SearchIssuesFieldId ==
    /\ pc = "fieldId"
    /\ IF ~MustLookup("search")
       THEN /\ pc' = "search"
            /\ fieldId' = ResolvedId("search")
            /\ UNCHANGED <<exitCode, inflight, sent, lookupResult, caller>>
       ELSE \/ /\ JiraFetchSend(Request("field", NoKey, NoFieldId, <<>>))
               /\ pc' = "fieldWait"
               /\ caller' = "search"
               /\ UNCHANGED <<exitCode, lookupResult, fieldId>>
            \/ /\ ~tokenValid
               /\ lookupResult' = "token"
               /\ HandleUpdateCatch
               /\ UNCHANGED <<inflight, sent, fieldId, caller>>
    /\ UNCHANGED <<env, opts, currentStatusFieldId, idLog, authChecks, authResult,
                   searchResult, issues, idx, latches, counters, locals, hist, out>>

\* searchIssues 67-72 -> jiraFetch 16-18: GET /search
SearchRequest ==
    /\ pc = "search"
    /\ \/ /\ JiraFetchSend(Request("search", NoKey, fieldId, <<>>))
          /\ idLog' = Append(idLog, IdUse("search", 0, fieldId))
          /\ pc' = "searchWait"
          /\ UNCHANGED <<exitCode, searchResult>>
       \/ /\ ~tokenValid
          /\ searchResult' = "token"
          /\ HandleUpdateCatch
          /\ UNCHANGED <<inflight, sent, idLog>>
    /\ caller' = "none"
    /\ UNCHANGED <<env, opts, currentStatusFieldId, fieldId, authChecks, authResult,
                   lookupResult, issues, idx, latches, counters, locals, hist, out>>

\* jiraFetch 28-33, searchIssues 74 and handleUpdate 196-210
SearchResponse ==
    /\ pc = "searchWait"
    /\ \E req \in inflight :
        /\ req.kind = "search"
        /\ inflight' = inflight \ {req}
        /\ \/ /\ searchResult' = "http"
              /\ HandleUpdateCatch
              /\ UNCHANGED <<issues, idx, latches, counters, hist>>
           \/ \E list \in IssueLists(req.fieldId) :
                /\ searchResult' = "ok"
                /\ issues' = list
                /\ StartBatch(Len(list))
                /\ IF Len(list) = 0
                   THEN Exit(0)
                   ELSE /\ pc' = ProcessorFor(dryRun)
                        /\ exitCode' = exitCode
    /\ UNCHANGED <<env, opts, ids, currentStatusFieldId, sent, authChecks, authResult,
                   lookupResult, locals, out>>

(***************************************************************************)
(* processTicketsInteractive.                                              *)
(***************************************************************************)
\* InteractiveSkip leaving the loop at once, the rest counted in one step
InteractiveSkip_CountsRest ==
    /\ pc = "loop"
    /\ idx <= N
    /\ skipAll
    /\ skippedCount' = skippedCount + (N - idx + 1)
    /\ idx' = N + 1
    /\ UNCHANGED <<pc, exitCode, env, opts, ids, repo, setup, issues, latches,
                   updatedCount, locals, hist, out>>

\* index.ts 77-80: if (skipAll) { skippedCount++; continue; }
InteractiveSkip ==
    /\ pc = "loop"
    /\ idx <= N
    /\ skipAll
    /\ skippedCount' = skippedCount + 1
    /\ NextIssue
    /\ UNCHANGED <<pc, exitCode, env, opts, ids, repo, setup, issues, latches,
                   updatedCount, hist, out>>

\* index.ts 82: await getCurrentStatus(issue); jira.ts 81-88
InteractiveFetch ==
    /\ pc = "loop"
    /\ idx <= N
    /\ ~skipAll
    /\ IF MustLookup("fetch")
       THEN /\ fetches' = [fetches EXCEPT ![idx] = @ + 1]
            /\ IF tokenValid
               THEN /\ JiraFetchSend(Request("field", NoKey, NoFieldId, <<>>))
                    /\ pc' = "fieldWait"
                    /\ caller' = "fetch"
                    /\ UNCHANGED exitCode
               ELSE /\ HandleUpdateCatch
                    /\ UNCHANGED <<inflight, sent, caller>>
            /\ UNCHANGED <<fieldId, idLog, currentStatus>>
       ELSE /\ fetches' = IF caller = "fetch" THEN fetches
                          ELSE [fetches EXCEPT ![idx] = @ + 1]
            /\ fieldId' = ResolvedId("fetch")
            /\ caller' = "none"
            /\ idLog' = Append(idLog, IdUse("read", idx, ResolvedId("fetch")))
            /\ currentStatus' = GetCurrentStatus(issues[idx], ResolvedId("fetch"))
            /\ pc' = "fetched"
            /\ UNCHANGED <<exitCode, inflight, sent>>
    /\ UNCHANGED <<env, opts, currentStatusFieldId, setup, issues, idx, latches,
                   counters, newStatus, answer, via, shown, prompts, writes,
                   results, failures, out>>

\* InteractiveDisplay without the applyAll test of index.ts 87: always prompts
InteractiveDisplay_AlwaysPrompts ==
    /\ pc = "fetched"
    /\ LET new == BuildNewStatus(statusUpdate, currentStatus, datePrefix, now)
       IN  /\ newStatus' = new
           /\ shown' = [shown EXCEPT ![idx] =
                          Append(@, DisplayTicketUpdate(issues[idx], currentStatus, new))]
    /\ prompts' = [prompts EXCEPT ![idx] = @ + 1]
    /\ pc' = "prompt"
    /\ UNCHANGED <<exitCode, env, opts, ids, repo, setup, issues, idx, latches,
                   counters, currentStatus, answer, via, fetches, writes, results,
                   failures, out>>

\* InteractiveDisplay without the display once applyAll is set
InteractiveDisplay_QuietAuto ==
    /\ pc = "fetched"
    /\ LET new == BuildNewStatus(statusUpdate, currentStatus, datePrefix, now)
       IN  /\ newStatus' = new
           /\ shown' = IF applyAll THEN shown
                       ELSE [shown EXCEPT ![idx] =
                               Append(@, DisplayTicketUpdate(issues[idx],
                                                             currentStatus, new))]
    /\ IF applyAll
       THEN /\ via' = "auto"
            /\ pc' = "update"
            /\ UNCHANGED prompts
       ELSE /\ prompts' = [prompts EXCEPT ![idx] = @ + 1]
            /\ pc' = "prompt"
            /\ UNCHANGED via
    /\ UNCHANGED <<exitCode, env, opts, ids, repo, setup, issues, idx, latches,
                   counters, currentStatus, answer, fetches, writes, results,
                   failures, out>>

\* index.ts 83-104: buildNewStatus, displayTicketUpdate, then the auto-apply
\* block or the prompt
InteractiveDisplay ==
    /\ pc = "fetched"
    /\ LET new == BuildNewStatus(statusUpdate, currentStatus, datePrefix, now)
       IN  /\ newStatus' = new
           /\ shown' = [shown EXCEPT ![idx] =
                          Append(@, DisplayTicketUpdate(issues[idx], currentStatus, new))]
    /\ IF applyAll
       THEN /\ via' = "auto"
            /\ pc' = "update"
            /\ UNCHANGED prompts
       ELSE /\ prompts' = [prompts EXCEPT ![idx] = @ + 1]
            /\ pc' = "prompt"
            /\ UNCHANGED via
    /\ UNCHANGED <<exitCode, env, opts, ids, repo, setup, issues, idx, latches,
                   counters, currentStatus, answer, fetches, writes, results,
                   failures, out>>

\* index.ts 22-34, 102: the operator's line, lower-cased and trimmed
InteractiveAnswer ==
    /\ pc = "prompt"
    /\ \E raw \in RawAnswers : answer' = NormalizeAnswer(raw)
    /\ pc' = "decide"
    /\ UNCHANGED <<exitCode, env, opts, ids, repo, setup, issues, idx, latches,
                   counters, currentStatus, newStatus, via, hist, out>>

\* index.ts 106-146: switch (answer)
InteractiveDecide ==
    /\ pc = "decide"
    /\ IF IsYes(answer)
       THEN /\ via' = "yes"
            /\ pc' = "update"
            /\ UNCHANGED <<idx, latches, counters, currentStatus, newStatus, answer>>
       ELSE IF IsAll(answer)
       THEN /\ applyAll' = TRUE
            /\ via' = "all"
            /\ pc' = "update"
            /\ UNCHANGED <<idx, skipAll, counters, currentStatus, newStatus, answer>>
       ELSE IF IsSkipAll(answer)
       THEN /\ skipAll' = TRUE
            /\ skippedCount' = skippedCount + 1
            /\ pc' = "loop"
            /\ NextIssue
            /\ UNCHANGED <<applyAll, updatedCount>>
       ELSE /\ skippedCount' = skippedCount + 1
            /\ pc' = "loop"
            /\ NextIssue
            /\ UNCHANGED <<latches, updatedCount>>
    /\ UNCHANGED <<exitCode, env, opts, ids, repo, setup, issues, hist, out>>

\* UpdateSucceeded without updatedCount++
UpdateSucceeded_Uncounted(block) ==
    /\ pc' = "loop"
    /\ NextIssue
    /\ UNCHANGED <<exitCode, counters, failures>>

\* index.ts 91-92, 112-113, 127-128: spinner.succeed, updatedCount++
UpdateSucceeded(block) ==
    /\ updatedCount' = updatedCount + 1
    /\ pc' = "loop"
    /\ NextIssue
    /\ UNCHANGED <<exitCode, skippedCount, failures>>

\* UpdateFailed leaving the loop after the report (break out of the for-of)
UpdateFailed_Break(block) ==
    /\ failures' = [failures EXCEPT ![idx] = Append(@, issues[idx].key)]
    /\ pc' = "loop"
    /\ idx' = N + 1
    /\ currentStatus' = JNull
    /\ newStatus' = <<>>
    /\ answer' = NoAnswer
    /\ via' = "none"
    /\ UNCHANGED <<exitCode, counters>>

\* UpdateFailed counting the failed ticket as skipped
UpdateFailed_CountsSkipped(block) ==
    /\ failures' = [failures EXCEPT ![idx] = Append(@, issues[idx].key)]
    /\ skippedCount' = skippedCount + 1
    /\ pc' = "loop"
    /\ NextIssue
    /\ UNCHANGED <<exitCode, updatedCount>>

\* the update blocks without try/catch: the error reaches handleUpdate's catch
UpdateFailed_Uncaught(block) ==
    /\ HandleUpdateCatch
    /\ UNCHANGED <<idx, counters, currentStatus, newStatus, answer, via, failures>>

\* UpdateFailed trying the same update again after the report
UpdateFailed_Retry(block) ==
    /\ failures' = [failures EXCEPT ![idx] = Append(@, issues[idx].key)]
    /\ pc' = "update"
    /\ UNCHANGED <<exitCode, idx, counters, currentStatus, newStatus, answer, via>>

\* index.ts 93-97, 114-118, 129-133: catch (error) { spinner.fail(...) }
UpdateFailed(block) ==
    /\ failures' = [failures EXCEPT ![idx] = Append(@, issues[idx].key)]
    /\ pc' = "loop"
    /\ NextIssue
    /\ UNCHANGED <<exitCode, counters>>

\* UpdateCall composing the value again at the time of the call
UpdateCall_Recomposes ==
    /\ pc = "update"
    /\ FieldIdCached(currentStatusFieldId)
    /\ LET value == BuildNewStatus(statusUpdate, currentStatus, datePrefix, now)
       IN  /\ writes' = [writes EXCEPT ![idx] =
                           Append(@, [key |-> issues[idx].key, value |-> value,
                                      fieldId |-> currentStatusFieldId, via |-> via])]
           /\ \/ /\ JiraFetchSend(Request("put", issues[idx].key,
                                           currentStatusFieldId, value))
                 /\ pc' = "updating"
                 /\ UNCHANGED <<exitCode, idx, counters, locals, results, failures>>
              \/ /\ ~tokenValid
                 /\ results' = [results EXCEPT ![idx] = Append(@, "rejected")]
                 /\ UpdateFailed(via)
                 /\ UNCHANGED <<inflight, sent>>
    /\ idLog' = Append(idLog, IdUse("write", idx, currentStatusFieldId))
    /\ UNCHANGED <<env, opts, currentStatusFieldId, fieldId, caller, setup, issues,
                   latches, fetches, shown, prompts, out>>

\* UpdateCall with the await of index.ts 90, 111, 126 left out: the loop goes
\* on while PUT is in flight
UpdateCall_NotAwaited ==
    /\ pc = "update"
    /\ FieldIdCached(currentStatusFieldId)
    /\ writes' = [writes EXCEPT ![idx] =
                    Append(@, [key |-> issues[idx].key, value |-> newStatus,
                               fieldId |-> currentStatusFieldId, via |-> via])]
    /\ idLog' = Append(idLog, IdUse("write", idx, currentStatusFieldId))
    /\ JiraFetchSend(Request("put", issues[idx].key, currentStatusFieldId, newStatus))
    /\ results' = [results EXCEPT ![idx] = Append(@, "resolved")]
    /\ UpdateSucceeded(via)
    /\ UNCHANGED <<env, opts, currentStatusFieldId, fieldId, caller, setup, issues,
                   latches, fetches, shown, prompts, out>>

\* index.ts 90, 111, 126 -> updateCurrentStatus 98-107 -> jiraFetch 16-18
UpdateCall ==
    /\ pc = "update"
    /\ IF MustLookup("update") /\ tokenValid
       THEN /\ JiraFetchSend(Request("field", NoKey, NoFieldId, <<>>))
            /\ pc' = "fieldWait"
            /\ caller' = "update"
            /\ UNCHANGED <<exitCode, idx, counters, locals, writes, results,
                           failures, fieldId, idLog>>
       ELSE /\ writes' = [writes EXCEPT ![idx] =
                            Append(@, [key |-> issues[idx].key, value |-> newStatus,
                                       fieldId |-> ResolvedId("update"), via |-> via])]
            /\ fieldId' = ResolvedId("update")
            /\ caller' = "none"
            /\ idLog' = Append(idLog, IdUse("write", idx, ResolvedId("update")))
            /\ \/ /\ JiraFetchSend(Request("put", issues[idx].key,
                                            ResolvedId("update"), newStatus))
                  /\ pc' = "updating"
                  /\ UNCHANGED <<exitCode, idx, counters, locals, results, failures>>
               \/ /\ ~tokenValid
                  /\ results' = [results EXCEPT ![idx] = Append(@, "rejected")]
                  /\ UpdateFailed(via)
                  /\ UNCHANGED <<inflight, sent>>
    /\ UNCHANGED <<env, opts, currentStatusFieldId, setup, issues, latches,
                   fetches, shown, prompts, out>>

\* the error of getCurrentStatusFieldId reaches the function that awaits it:
\* inside a try block of the loop (caller "update"), else handleUpdate's catch
LookupThrows(kind) ==
    IF caller = "update"
    THEN /\ writes' = [writes EXCEPT ![idx] =
                         Append(@, [key |-> issues[idx].key, value |-> newStatus,
                                    fieldId |-> NoFieldId, via |-> via])]
         /\ results' = [results EXCEPT ![idx] = Append(@, "rejected")]
         /\ UpdateFailed(via)
         /\ caller' = "none"
         /\ UNCHANGED lookupResult
    ELSE /\ HandleUpdateCatch
         /\ lookupResult' = IF caller = "search" THEN kind ELSE lookupResult
         /\ UNCHANGED <<caller, idx, counters, locals, writes, results, failures>>

\* jiraFetch 28-33 and getCurrentStatusFieldId 46-58: the response of GET /field
FieldResponse ==
    /\ pc = "fieldWait"
    /\ \E req \in inflight :
        /\ req.kind = "field"
        /\ inflight' = inflight \ {req}
        /\ \/ /\ LookupThrows("http")
              /\ UNCHANGED <<currentStatusFieldId, fieldId>>
           \/ \E table \in FieldTables :
                LET hit == FindCurrentStatusField(table)
                IN  IF hit = <<>>
                    THEN /\ LookupThrows("notfound")
                         /\ UNCHANGED <<currentStatusFieldId, fieldId>>
                    ELSE /\ lookupResult' = IF caller = "search" THEN "ok"
                                            ELSE lookupResult
                         /\ currentStatusFieldId' =
                                CacheAfterLookup(currentStatusFieldId, hit[1].id)
                         /\ fieldId' = hit[1].id
                         /\ pc' = ResumePc(caller)
                         /\ UNCHANGED <<exitCode, caller, idx, counters, locals,
                                        writes, results, failures>>
    /\ UNCHANGED <<env, opts, sent, idLog, authChecks, authResult, searchResult,
                   issues, latches, fetches, shown, prompts, out>>

\* jiraFetch 28-33: the response of PUT /issue/<key>
UpdateResponse ==
    /\ pc = "updating"
    /\ \E req \in inflight :
        /\ req.kind = "put"
        /\ inflight' = inflight \ {req}
    /\ \/ /\ results' = [results EXCEPT ![idx] = Append(@, "resolved")]
          /\ UpdateSucceeded(via)
       \/ /\ results' = [results EXCEPT ![idx] = Append(@, "rejected")]
          /\ UpdateFailed(via)
    /\ UNCHANGED <<env, opts, ids, currentStatusFieldId, sent, setup, issues, latches,
                   fetches, shown, prompts, writes, out>>

\* InteractiveSummary without the console.log calls of index.ts 149-152
InteractiveSummary_Silent ==
    /\ pc = "loop"
    /\ idx > N
    /\ Exit(0)
    /\ UNCHANGED <<env, opts, ids, repo, setup, issues, idx, latches, counters,
                   locals, hist, out>>

\* index.ts 149-152, then handleUpdate returns and the process ends
InteractiveSummary ==
    /\ pc = "loop"
    /\ idx > N
    /\ summary' = Append(summary, [updated |-> updatedCount, skipped |-> skippedCount])
    /\ Exit(0)
    /\ UNCHANGED <<env, opts, ids, repo, setup, issues, idx, latches, counters,
                   locals, hist, dryReport>>

(***************************************************************************)
(* processTicketsDryRun.                                                   *)
(***************************************************************************)
\* index.ts 166: await getCurrentStatus(issue); jira.ts 81-88
DryRunFetch ==
    /\ pc = "dry"
    /\ idx <= N
    /\ IF MustLookup("dryFetch")
       THEN /\ fetches' = [fetches EXCEPT ![idx] = @ + 1]
            /\ IF tokenValid
               THEN /\ JiraFetchSend(Request("field", NoKey, NoFieldId, <<>>))
                    /\ pc' = "fieldWait"
                    /\ caller' = "dryFetch"
                    /\ UNCHANGED exitCode
               ELSE /\ HandleUpdateCatch
                    /\ UNCHANGED <<inflight, sent, caller>>
            /\ UNCHANGED <<fieldId, idLog, currentStatus>>
       ELSE /\ fetches' = IF caller = "dryFetch" THEN fetches
                          ELSE [fetches EXCEPT ![idx] = @ + 1]
            /\ fieldId' = ResolvedId("dryFetch")
            /\ caller' = "none"
            /\ idLog' = Append(idLog, IdUse("read", idx, ResolvedId("dryFetch")))
            /\ currentStatus' = GetCurrentStatus(issues[idx], ResolvedId("dryFetch"))
            /\ pc' = "dryFetched"
            /\ UNCHANGED <<exitCode, inflight, sent>>
    /\ UNCHANGED <<env, opts, currentStatusFieldId, setup, issues, idx, latches,
                   counters, newStatus, answer, via, shown, prompts, writes,
                   results, failures, out>>

\* index.ts 167-168: buildNewStatus, displayTicketUpdate
DryRunDisplay ==
    /\ pc = "dryFetched"
    /\ shown' = [shown EXCEPT ![idx] =
                   Append(@, DisplayTicketUpdate(issues[idx], currentStatus,
                       BuildNewStatus(statusUpdate, currentStatus, datePrefix, now)))]
    /\ pc' = "dry"
    /\ NextIssue
    /\ UNCHANGED <<exitCode, env, opts, ids, repo, setup, issues, latches, counters,
                   fetches, prompts, writes, results, failures, out>>

\* index.ts 171-174: [DRY RUN] Would update ${issues.length} ticket(s)
DryRunReport ==
    /\ pc = "dry"
    /\ idx > N
    /\ dryReport' = Append(dryReport, Len(issues))
    /\ Exit(0)
    /\ UNCHANGED <<env, opts, ids, repo, setup, issues, idx, latches, counters,
                   locals, hist, summary>>

(***************************************************************************)
(* The environment.                                                        *)
(***************************************************************************)
\* the 24 h token of cloudflared runs out while the command is running
TokenExpires ==
    /\ pc \notin {"start", "exited"}
    /\ tokenValid
    /\ tokenValid' = FALSE
    /\ UNCHANGED <<pc, exitCode, now, opts, ids, repo, setup, issues, idx, latches,
                   counters, locals, hist, out>>

\* the clock passes midnight (UTC) while the command is running
Tick ==
    /\ pc \notin {"start", "exited"}
    /\ \E k \in 1..(Len(Clocks) - 1) :
        /\ now = Clocks[k]
        /\ now' = Clocks[k + 1]
    /\ UNCHANGED <<pc, exitCode, tokenValid, opts, ids, repo, setup, issues, idx,
                   latches, counters, locals, hist, out>>

Next ==
    \/ HandleUpdateAuth
    \/ SearchIssuesFieldId
    \/ FieldResponse
    \/ SearchRequest
    \/ SearchResponse
    \/ InteractiveSkip
    \/ InteractiveFetch
    \/ InteractiveDisplay
    \/ InteractiveAnswer
    \/ InteractiveDecide
    \/ UpdateCall
    \/ UpdateResponse
    \/ InteractiveSummary
    \/ DryRunFetch
    \/ DryRunDisplay
    \/ DryRunReport
    \/ TokenExpires
    \/ Tick

Spec == Init /\ [][Next]_vars

(***************************************************************************)
(* Vocabulary of the properties.                                           *)
(***************************************************************************)
\* the positions of the result list
Positions == 1..N

\* what the display of position p must show when the clock reads c
ExpectedDisplay(p, c) ==
    LET value == issues[p].fields[currentStatusFieldId]
        current == IF value.t = "string" THEN value ELSE JNull
    IN  [key      |-> issues[p].key,
         current  |-> IF current.t = "string" /\ current.v # <<>>
                      THEN current.v ELSE EmptyText,
         proposed |-> BuildNewStatus(statusUpdate, current, datePrefix, c)]

\* position p was displayed exactly once, with its current and proposed value
DisplayedOnce(p) ==
    /\ Len(shown[p]) = 1
    /\ \E k \in 1..Len(Clocks) : shown[p][1] = ExpectedDisplay(p, Clocks[k])

\* nothing at all was done for position p
Untouched(p) ==
    /\ fetches[p] = 0
    /\ shown[p] = <<>>
    /\ prompts[p] = 0
    /\ writes[p] = <<>>
    /\ results[p] = <<>>
    /\ failures[p] = <<>>

\* the literal answers of the decision table
AnswersYes == {<<"y">>, <<"y", "e", "s">>}
AnswersAll == {<<"a">>, <<"a", "l", "l">>}
AnswersSkipAll ==
    {<<"s">>, <<"s", "k", "i", "p">>, <<"s", "k", "i", "p", " ", "a", "l", "l">>}

\* the position that was prompted last
LastPrompted ==
    IF \E p \in Positions : prompts[p] > 0
    THEN CHOOSE p \in Positions :
            prompts[p] > 0 /\ \A q \in Positions : prompts[q] > 0 => q <= p
    ELSE 0

(***************************************************************************)
(* C1  Dry-run: a dry run makes no updateCurrentStatus call, sends no PUT  *)
(* and issues no prompt; every position the loop has passed was displayed  *)
(* exactly once with its current and its proposed value; and the run ends  *)
(* by reporting N, the length of the list, after displaying all N issues.  *)
(***************************************************************************)
C1_DryRun ==
    dryRun =>
        /\ sent.put = 0
        /\ summary = <<>>
        /\ \A p \in Positions :
            /\ writes[p] = <<>>
            /\ prompts[p] = 0
            /\ p < idx => DisplayedOnce(p)
            /\ p > idx => shown[p] = <<>>
        /\ pc \notin {"loop", "fetched", "prompt", "decide", "update", "updating"}
        /\ dryReport # <<>> =>
            /\ dryReport = <<N>>
            /\ pc = "exited"
            /\ \A p \in Positions : DisplayedOnce(p)
        /\ (pc = "exited" /\ searchResult = "ok" /\ N > 0) => dryReport = <<N>>

\* a dry run over three issues has reported, one issue with a stored value
C1_Witness ==
    /\ dryRun
    /\ pc = "exited"
    /\ N = 3
    /\ dryReport = <<3>>
    /\ \E p \in Positions : Len(shown[p][1].proposed) > Len(shown[p][1].current) + 3
    /\ \E p \in Positions : shown[p][1].current = EmptyText

(***************************************************************************)
(* C2  Skip-all: answering s, skip or skip all at issue i sets skipAll,    *)
(* counts issue i as skipped and goes to the next issue; while skipAll is  *)
(* set every further issue is counted as skipped, one by one, with no      *)
(* fetch, display, prompt or write; s at ticket 1 of 3 ends with           *)
(* Updated: 0, Skipped: 3.                                                 *)
(***************************************************************************)
C2_AnswerStep ==
    (pc = "decide" /\ pc' # "decide" /\ answer \in AnswersSkipAll) =>
        /\ skipAll'
        /\ skippedCount' = skippedCount + 1
        /\ updatedCount' = updatedCount
        /\ idx' = idx + 1
        /\ pc' = "loop"
        /\ hist' = hist
        /\ sent' = sent

C2_LatchedStep ==
    skipAll =>
        /\ skipAll'
        /\ hist' = hist
        /\ sent' = sent
        /\ updatedCount' = updatedCount
        /\ \/ idx' = idx /\ skippedCount' = skippedCount
           \/ idx <= N /\ idx' = idx + 1 /\ skippedCount' = skippedCount + 1

C2_Untouched ==
    skipAll =>
        /\ pc \in {"loop", "exited"}
        /\ \A p \in Positions : p > LastPrompted => Untouched(p)
        /\ skippedCount >= idx - LastPrompted
        /\ pc = "exited" => idx = N + 1 /\ Len(summary) = 1

C2_Scenario ==
    (pc = "exited" /\ skipAll /\ N = 3 /\ LastPrompted = 1) =>
        summary = <<[updated |-> 0, skipped |-> 3]>>

\* C2: the skip-all answer latches skipAll and every later issue is only counted
C2_SkipAll ==
    /\ [][C2_AnswerStep /\ C2_LatchedStep]_vars
    /\ [](C2_Untouched /\ C2_Scenario)

\* the skip-all answer was given at ticket 1 of 3 and the run has ended
C2_Witness ==
    /\ pc = "exited"
    /\ skipAll
    /\ N = 3
    /\ prompts = <<1, 0, 0>>
    /\ summary = <<[updated |-> 0, skipped |-> 3]>>

(***************************************************************************)
(* C3  Apply-all: answering a or all at issue i sets applyAll and goes     *)
(* straight to the update of issue i; once applyAll is set it stays set,   *)
(* every issue from i on gets exactly one updateCurrentStatus call, the    *)
(* issues after i are displayed but never prompted, whatever the earlier   *)
(* calls returned; answers n, a over three issues with every write         *)
(* succeeding end with Updated: 2, Skipped: 1.                             *)
(***************************************************************************)
C3_AnswerStep ==
    (pc = "decide" /\ pc' # "decide" /\ answer \in AnswersAll) =>
        /\ applyAll'
        /\ pc' = "update"
        /\ idx' = idx
        /\ counters' = counters
        /\ hist' = hist

C3_AttemptStep ==
    (pc = "update" /\ pc' # "update") =>
        /\ writes' = [writes EXCEPT ![idx] =
                        Append(@, [key |-> issues[idx].key, value |-> newStatus,
                                   fieldId |-> currentStatusFieldId, via |-> via])]
        /\ Len(writes'[idx]) = 1

C3_LatchedStep == applyAll => applyAll'

C3_Latched ==
    applyAll =>
        /\ ~skipAll
        /\ pc \in {"loop", "fetched", "update", "updating", "exited"}
        /\ LastPrompted \in Positions
        /\ \A p \in Positions :
            /\ (LastPrompted <= p /\ p < idx) => Len(writes[p]) = 1
            /\ (LastPrompted < p /\ p < idx) => Len(shown[p]) = 1
            /\ LastPrompted < p => prompts[p] = 0
            /\ Len(writes[p]) <= 1
        /\ pc = "exited" => idx = N + 1 /\ Len(summary) = 1

C3_Scenario ==
    ( /\ pc = "exited" /\ applyAll /\ N = 3
      /\ LastPrompted = 2
      /\ writes[1] = <<>>
      /\ results[2] = <<"resolved">> /\ results[3] = <<"resolved">> ) =>
        summary = <<[updated |-> 2, skipped |-> 1]>>

\* C3: the apply-all answer latches applyAll and every later issue gets one call
C3_ApplyAll ==
    /\ [][C3_AnswerStep /\ C3_AttemptStep /\ C3_LatchedStep]_vars
    /\ [](C3_Latched /\ C3_Scenario)

\* ticket 1 skipped at the prompt, apply-all answered at ticket 2, ticket 3
\* updated without a prompt
C3_Witness ==
    /\ pc = "exited"
    /\ N = 3
    /\ prompts = <<1, 1, 0>>
    /\ writes[1] = <<>>
    /\ writes[2] # <<>> /\ writes[2][1].via = "all"
    /\ writes[3] # <<>> /\ writes[3][1].via = "auto"
    /\ summary = <<[updated |-> 2, skipped |-> 1]>>

(***************************************************************************)
(* C4  Partial-failure tolerance: in the step in which an                  *)
(* updateCurrentStatus call is rejected (reached from y, from a or from    *)
(* the auto-apply block) the failure is reported with the key of that      *)
(* issue, the process does not exit and the loop goes to the next issue;   *)
(* a run whose search succeeded with a non-empty list visits every issue   *)
(* and ends with the summary, however many updates were rejected.          *)
(***************************************************************************)
\* number of rejected calls among the results of one position
Rejections(rs) == Cardinality({k \in 1..Len(rs) : rs[k] = "rejected"})

\* this step ends an updateCurrentStatus call of the current issue with outcome o
CallEnds(o) ==
    /\ idx \in Positions
    /\ Len(results') = Len(results)
    /\ results'[idx] = Append(results[idx], o)

C4_FailureStep ==
    CallEnds("rejected") =>
        /\ failures' = [failures EXCEPT ![idx] = Append(@, issues[idx].key)]
        /\ pc' = "loop"
        /\ idx' = idx + 1
        /\ exitCode' = exitCode
        /\ latches' = latches
        /\ issues' = issues

C4_Reported ==
    /\ \A p \in Positions :
        /\ Len(failures[p]) = Rejections(results[p])
        /\ \A k \in 1..Len(failures[p]) : failures[p][k] = issues[p].key
    /\ (pc = "exited" /\ searchResult = "ok" /\ N > 0 /\ ~dryRun) =>
        /\ idx = N + 1
        /\ Len(summary) = 1
        /\ \A p \in Positions : fetches[p] = 1 \/ (skipAll /\ p > LastPrompted)

\* C4: a rejected update is reported with its key and the loop goes on
C4_PartialFailure ==
    /\ [][C4_FailureStep]_vars
    /\ []C4_Reported

\* three rejected updates, one from each block, and the run reached its summary
C4_Witness ==
    /\ pc = "exited"
    /\ N = 3
    /\ writes[1] # <<>> /\ writes[1][1].via = "yes"
    /\ writes[2] # <<>> /\ writes[2][1].via = "all"
    /\ writes[3] # <<>> /\ writes[3][1].via = "auto"
    /\ \A p \in Positions : results[p] = <<"rejected">> /\ failures[p] = <<IssueKey(p)>>
    /\ Len(summary) = 1

(***************************************************************************)
(* C5  Counters of an update attempt: the step in which a call resolves    *)
(* adds exactly one to updatedCount and leaves skippedCount; the step in   *)
(* which a call is rejected leaves both counters; updatedCount changes in  *)
(* no other step of a batch.                                               *)
(***************************************************************************)
C5_Step ==
    /\ CallEnds("resolved") =>
        updatedCount' = updatedCount + 1 /\ skippedCount' = skippedCount
    /\ CallEnds("rejected") =>
        updatedCount' = updatedCount /\ skippedCount' = skippedCount
    /\ updatedCount' # updatedCount => CallEnds("resolved")

\* C5: a resolved call adds one to updatedCount, a rejected call changes no counter
C5_FailureUncounted == [][C5_Step]_vars

\* the update of ticket 2 of 3 failed under y: it is in neither counter
C5_Witness ==
    /\ pc = "exited"
    /\ N = 3
    /\ results = << <<"resolved">>, <<"rejected">>, <<"resolved">> >>
    /\ writes[2][1].via = "yes"
    /\ failures[2] = <<IssueKey(2)>>
    /\ summary = <<[updated |-> 2, skipped |-> 0]>>

(***************************************************************************)
(* C6  Exit status of the update command: the process ends with status 1   *)
(* as soon as the authentication check fails, the field lookup fails (no   *)
(* token, HTTP error, field not found) or the search fails (no token, HTTP *)
(* error); in every other run it ends with status 0, whatever number of    *)
(* updates were rejected.                                                  *)
(***************************************************************************)
SetupFailed ==
    \/ authResult = "failed"
    \/ lookupResult \in {"token", "http", "notfound"}
    \/ searchResult \in {"token", "http"}

\* C6: exit status 1 exactly when authentication or searchIssues failed, else 0
C6_ExitStatus ==
    /\ exitCode \in {0, 1}
    /\ SetupFailed => pc = "exited" /\ exitCode = 1
    /\ pc = "exited" => (exitCode = 1 <=> SetupFailed)
    /\ pc # "exited" => exitCode = 0

\* every update of a batch of three was rejected and the command ended with 0
C6_Witness ==
    /\ pc = "exited"
    /\ exitCode = 0
    /\ N = 3
    /\ \A p \in Positions : results[p] = <<"rejected">>

(***************************************************************************)
(* C7  The authentication check runs once, as the first step of the run;   *)
(* when it fails the process exits with 1 and nothing else has happened    *)
(* or happens: no field lookup, no search, no prompt, no updateCurrentStatus*)
(* call, no HTTP request.  No request is ever sent while the token is      *)
(* invalid (jiraFetch reads the token before it calls fetch).              *)
(***************************************************************************)
NothingDone ==
    /\ sent = [field |-> 0, search |-> 0, put |-> 0]
    /\ inflight = {}
    /\ lookupResult = "none"
    /\ searchResult = "none"
    /\ currentStatusFieldId = NoFieldId
    /\ issues = <<>>
    /\ hist = << <<>>, <<>>, <<>>, <<>>, <<>>, <<>> >>
    /\ summary = <<>>
    /\ dryReport = <<>>

C7_CheckedFirst ==
    /\ authChecks <= 1
    /\ pc = "start" => authChecks = 0 /\ authResult = "none" /\ NothingDone
    /\ pc # "start" => authChecks = 1 /\ authResult # "none"
    /\ ~NothingDone => authResult = "ok"
    /\ authResult = "failed" => pc = "exited" /\ exitCode = 1 /\ NothingDone

C7_TokenStep == ~tokenValid => sent' = sent /\ inflight' \subseteq inflight

\* C7: one authentication check, first; its failure ends the run with nothing done
C7_AuthFatal ==
    /\ []C7_CheckedFirst
    /\ [][C7_TokenStep]_vars

\* the run of an unauthenticated operator has ended
C7_Witness ==
    /\ ~tokenValid
    /\ authChecks = 1
    /\ authResult = "failed"
    /\ pc = "exited"
    /\ exitCode = 1

(***************************************************************************)
(* C8  A failed initial query (searchIssues: the field lookup or the       *)
(* search request) ends the run with status 1 before any per-issue work:   *)
(* no issue list, no fetch, no display, no prompt, no updateCurrentStatus  *)
(* call, no PUT, no summary and no dry-run report.                         *)
(***************************************************************************)
QueryFailed ==
    \/ lookupResult \in {"token", "http", "notfound"}
    \/ searchResult \in {"token", "http"}

\* C8: a failed searchIssues ends the run with status 1 and no per-issue work
C8_QueryFatal ==
    QueryFailed =>
        /\ pc = "exited"
        /\ exitCode = 1
        /\ issues = <<>>
        /\ hist = << <<>>, <<>>, <<>>, <<>>, <<>>, <<>> >>
        /\ sent.put = 0
        /\ summary = <<>>
        /\ dryReport = <<>>

\* the field lookup succeeded and the search request came back with an error
C8_Witness ==
    /\ lookupResult = "ok"
    /\ searchResult = "http"
    /\ sent.search = 1
    /\ pc = "exited"

(***************************************************************************)
(* C9  Decision-table default: when the normalized answer is none of y,    *)
(* yes, a, all, s, skip, skip all (n, the empty line, ...), the decision   *)
(* step leaves both latches false, adds one to skippedCount, makes no      *)
(* updateCurrentStatus call and sends nothing, and goes to the next issue; *)
(* an issue reached with both latches false is fetched, displayed and      *)
(* prompted.                                                               *)
(***************************************************************************)
AnswersListed == AnswersYes \cup AnswersAll \cup AnswersSkipAll

C9_DefaultStep ==
    (pc = "decide" /\ pc' # "decide" /\ answer \notin AnswersListed) =>
        /\ latches' = latches
        /\ ~applyAll' /\ ~skipAll'
        /\ skippedCount' = skippedCount + 1
        /\ updatedCount' = updatedCount
        /\ hist' = hist
        /\ writes[idx] = <<>>
        /\ sent' = sent
        /\ idx' = idx + 1
        /\ pc' = "loop"

C9_NextStep ==
    /\ (pc = "loop" /\ pc' # pc /\ idx <= N /\ ~applyAll /\ ~skipAll) =>
          pc' = "fetched" /\ idx' = idx /\ fetches'[idx] = fetches[idx] + 1
    /\ (pc = "fetched" /\ pc' # pc /\ ~applyAll) =>
          /\ pc' = "prompt"
          /\ idx' = idx
          /\ Len(shown'[idx]) = Len(shown[idx]) + 1
          /\ prompts'[idx] = prompts[idx] + 1
          /\ writes' = writes
    /\ (writes' # writes /\ pc # "searchWait") =>
          /\ pc = "update"
          /\ \A p \in Positions : p # idx => writes'[p] = writes[p]
    /\ (pc \notin {"start", "fieldId", "fieldWait", "search", "searchWait"}) =>
          idx' >= idx

\* C9: any unlisted answer skips the issue, keeps the latches, and the next is prompted
C9_Default ==
    /\ [][C9_DefaultStep /\ C9_NextStep]_vars
    /\ [](pc \in {"prompt", "decide"} => ~applyAll /\ ~skipAll)

\* ticket 1 was skipped at the prompt and ticket 2 is prompted
C9_Witness ==
    /\ pc = "prompt"
    /\ idx = 2
    /\ skippedCount = 1
    /\ updatedCount = 0
    /\ ~skipAll /\ ~applyAll
    /\ writes[1] = <<>>
    /\ prompts[1] = 1 /\ prompts[2] = 1
    /\ Len(shown[2]) = 1

(***************************************************************************)
(* C10  Answer y or yes: the decision step goes to the update of the       *)
(* current issue with both latches and both counters unchanged; exactly    *)
(* one updateCurrentStatus call is made for that issue, with its key; the  *)
(* latches are still false when the call has ended, and the next issue,    *)
(* once reached, is displayed and prompted.                                *)
(***************************************************************************)
C10_YesStep ==
    (pc = "decide" /\ pc' # "decide" /\ answer \in AnswersYes) =>
        /\ pc' = "update"
        /\ idx' = idx
        /\ latches' = latches
        /\ counters' = counters
        /\ hist' = hist

C10_CallStep ==
    (via = "yes" /\ pc' # pc) =>
        /\ latches' = latches
        /\ pc = "update" =>
            /\ Len(writes'[idx]) = 1
            /\ writes'[idx][1].key = issues[idx].key
            /\ writes'[idx][1].value = newStatus
        /\ pc = "updating" => writes' = writes
        /\ pc' = "loop" => idx' = idx + 1

\* the update of position p came from the answer y or yes
ViaYes(p) == writes[p] # <<>> /\ writes[p][1].via = "yes"

\* the loop has reached the prompt of position p, or is past it
Prompted(p) ==
    \/ p < idx
    \/ p = idx /\ pc \in {"prompt", "decide", "update", "updating"}

C10_Inv ==
    /\ via = "yes" =>
        /\ ~applyAll /\ ~skipAll
        /\ pc \in {"update", "updating"}
        /\ pc = "update" => writes[idx] = <<>>
        /\ pc = "updating" => Len(writes[idx]) = 1
    /\ \A p \in Positions :
        ViaYes(p) =>
            /\ Len(writes[p]) = 1
            /\ prompts[p] = 1
            /\ (p + 1 <= N /\ (Prompted(p + 1) \/ pc = "exited")) =>
                  prompts[p + 1] = 1 /\ Len(shown[p + 1]) = 1

\* C10: y or yes makes one call for the issue, keeps the latches, and the next is prompted
C10_Yes ==
    /\ [][C10_YesStep /\ C10_CallStep]_vars
    /\ []C10_Inv

\* ticket 1 was updated on y or yes and ticket 2 is prompted
C10_Witness ==
    /\ pc = "prompt"
    /\ idx = 2
    /\ ViaYes(1)
    /\ results[1] = <<"resolved">>
    /\ updatedCount = 1
    /\ prompts[2] = 1
    /\ ~applyAll /\ ~skipAll

(***************************************************************************)
(* C11.  The field identifier.  getCurrentStatusFieldId is called by       *)
(* searchIssues, by every getCurrentStatus and by every                    *)
(* updateCurrentStatus; only the first call finds the cache empty, and     *)
(* every later call returns the cached identifier.                         *)
(***************************************************************************)
\* the uses of the identifier by operation op at position p
UsesOf(op, p) ==
    Cardinality({k \in 1..Len(idLog) : idLog[k].op = op /\ idLog[k].pos = p})

C11_Inv ==
    /\ sent.field <= 1
    /\ sent.field = 0 => currentStatusFieldId = NoFieldId
    /\ \A k \in 1..Len(idLog) :
        FieldIdCached(idLog[k].id) /\ idLog[k].id = currentStatusFieldId
    /\ \A req \in inflight :
        req.kind \in {"search", "put"} => req.fieldId = currentStatusFieldId
    /\ UsesOf("search", 0) = sent.search
    /\ \A p \in DOMAIN writes :
        /\ UsesOf("read", p) = fetches[p]
        /\ UsesOf("write", p) = Len(writes[p])
        /\ \A k \in 1..Len(writes[p]) :
            writes[p][k].fieldId = currentStatusFieldId

\* once resolved, the cached identifier never changes
C11_CacheStep ==
    [][currentStatusFieldId # NoFieldId =>
           currentStatusFieldId' = currentStatusFieldId]_vars

\* C11: GET /field is sent at most once per process, and the query, every
\* read and every write of the run use the identifier it returned
C11_OneFieldId == [](C11_Inv) /\ C11_CacheStep

\* an interactive run over three issues with reads and writes after one lookup
C11_Witness ==
    /\ pc = "exited"
    /\ ~dryRun
    /\ N = MaxIssues
    /\ sent.field = 1
    /\ currentStatusFieldId = "customfield_20"
    /\ UsesOf("search", 0) = 1
    /\ \A p \in Positions : UsesOf("read", p) = 1
    /\ \E p \in Positions : UsesOf("write", p) = 1 /\ results[p] = <<"resolved">>

(***************************************************************************)
(* C12.  buildNewStatus as a function of its arguments and of the clock:   *)
(* a specification that calls it on update texts, current values, flags    *)
(* and clocks.                                                             *)
(***************************************************************************)
\* update texts: plain, empty, and with white space of its own
ComposeUpdates == { <<"O", "K">>, <<>>, <<" ", "o", "k", "\n">> }

\* current values: null, empty, white space only, text, text with white
\* space around it, text with embedded newlines
ComposeCurrents ==
    { JNull, JString(<<>>), JString(<<" ">>), JString(<<"\n", "\t", " ">>),
      JString(<<"o", "l", "d">>), JString(<<" ", "o", "l", "d", "\n">>),
      JString(<<"a", "\n", "\n", "b">>) }

\* clocks read by new Date()
ComposeClocks ==
    { Clocks[1], Clocks[2],
      [year |-> 1999, month |-> 12, day |-> 31, hour |-> 23, minute |-> 59],
      [year |-> 2026, month |-> 11, day |-> 4, hour |-> 12, minute |-> 30] }

\* the arguments of one call
ComposeArguments ==
    /\ statusUpdate' \in ComposeUpdates
    /\ currentStatus' \in ComposeCurrents
    /\ datePrefix' \in BOOLEAN
    /\ now' \in ComposeClocks

ComposeInit ==
    /\ pc = "compose"
    /\ exitCode = 0
    /\ tokenValid = TRUE
    /\ now \in ComposeClocks
    /\ dryRun = TRUE
    /\ datePrefix \in BOOLEAN
    /\ statusUpdate \in ComposeUpdates
    /\ currentStatusFieldId = NoFieldId
    /\ fieldId = NoFieldId
    /\ caller = "none"
    /\ idLog = <<>>
    /\ inflight = {}
    /\ sent = [field |-> 0, search |-> 0, put |-> 0]
    /\ authChecks = 0
    /\ authResult = "none"
    /\ lookupResult = "none"
    /\ searchResult = "none"
    /\ issues = <<>>
    /\ idx = 1
    /\ applyAll = FALSE
    /\ skipAll = FALSE
    /\ updatedCount = 0
    /\ skippedCount = 0
    /\ currentStatus \in ComposeCurrents
    /\ newStatus = <<>>
    /\ answer = NoAnswer
    /\ via = "none"
    /\ fetches = <<>>
    /\ shown = <<>>
    /\ prompts = <<>>
    /\ writes = <<>>
    /\ results = <<>>
    /\ failures = <<>>
    /\ summary = <<>>
    /\ dryReport = <<>>

\* const newStatus = buildNewStatus(statusUpdate, currentStatus, addDatePrefix)
ComposeCall ==
    /\ pc = "compose"
    /\ newStatus' = BuildNewStatus(statusUpdate, currentStatus, datePrefix, now)
    /\ pc' = "composed"
    /\ UNCHANGED <<exitCode, env, opts, ids, repo, setup, issues, idx, latches,
                   counters, currentStatus, answer, via, hist, out>>

\* the next call, with other arguments
ComposeAgain ==
    /\ pc = "composed"
    /\ ComposeArguments
    /\ pc' = "compose"
    /\ UNCHANGED <<exitCode, tokenValid, dryRun, ids, repo, setup, issues, idx,
                   latches, counters, newStatus, answer, via, hist, out>>

ComposeNext == ComposeCall \/ ComposeAgain

ComposeSpec == ComposeInit /\ [][ComposeNext]_vars

\* the decimal digit of n at the place of weight w
DigitAt(n, w) == Digits[((n \div w) % 10) + 1]

\* the UTC date of clock d as YYYY-MM-DD
DateText(d) ==
    << DigitAt(d.year, 1000), DigitAt(d.year, 100), DigitAt(d.year, 10),
       DigitAt(d.year, 1), "-", DigitAt(d.month, 10), DigitAt(d.month, 1), "-",
       DigitAt(d.day, 10), DigitAt(d.day, 1) >>

\* null, empty or white space only
Blank(c) == c = JNull \/ \A k \in 1..Len(c.v) : c.v[k] \in WhiteSpace

\* the first line of the composed value
FirstLine(u, d, clock) == IF d THEN DateText(clock) \o <<":", " ">> \o u ELSE u

\* C12: the composed value is firstLine, a newline and the current value as
\* stored when the current value has non-white-space content, and firstLine
\* alone when it is null, empty or white space only; firstLine is
\* "<today>: u" with the date prefix and u verbatim without it
C12_Compose ==
    pc = "composed" =>
        newStatus = IF Blank(currentStatus)
                    THEN FirstLine(statusUpdate, datePrefix, now)
                    ELSE FirstLine(statusUpdate, datePrefix, now)
                           \o <<"\n">> \o currentStatus.v

\* a dated composition over a current value with white space around its text
C12_Witness ==
    /\ pc = "composed"
    /\ datePrefix
    /\ statusUpdate = <<"O", "K">>
    /\ now = Clocks[1]
    /\ currentStatus = JString(<<" ", "o", "l", "d", "\n">>)
    /\ newStatus = <<"2", "0", "2", "6", "-", "0", "1", "-", "2", "7", ":", " ",
                     "O", "K", "\n", " ", "o", "l", "d", "\n">>

(***************************************************************************)
(* C13.  One issue at a time.  Every remote call is awaited, so a request  *)
(* in flight means the program waits for it; the loops walk the list in    *)
(* the order of the search response.                                       *)
(***************************************************************************)
\* the program is suspended at an await of jiraFetch
Awaiting == pc \in {"fieldWait", "searchWait", "updating"}

\* every step made for position p is complete
Completed(p) ==
    /\ fetches[p] = 1
    /\ Len(results[p]) = Len(writes[p])
    /\ \A req \in inflight : req.key # issues[p].key

\* the per-position records of p change in this step
Touches(p) ==
    \/ fetches'[p] # fetches[p]
    \/ shown'[p] # shown[p]
    \/ prompts'[p] # prompts[p]
    \/ writes'[p] # writes[p]
    \/ results'[p] # results[p]
    \/ failures'[p] # failures[p]

C13_Inv ==
    /\ Cardinality(inflight) <= 1
    /\ inflight # {} => Awaiting
    /\ \A p \in Positions :
        /\ ~Untouched(p) => p <= idx
        /\ (p < idx /\ ~skipAll) => Completed(p)
        /\ shown[p] # <<>> => fetches[p] > 0
        /\ prompts[p] > 0 => shown[p] # <<>>
        /\ writes[p] # <<>> => shown[p] # <<>>
        /\ \A k \in 1..Len(shown[p]) : shown[p][k].key = issues[p].key
        /\ \A k \in 1..Len(writes[p]) : writes[p][k].key = issues[p].key

C13_Step ==
    [][/\ pc # "searchWait" =>
            /\ issues' = issues
            /\ \A p \in Positions : Touches(p) => p = idx
            /\ idx' # idx => (idx' = idx + 1 /\ inflight' = {})
       /\ pc = "searchWait" => idx' = idx]_vars

\* C13: the issues are processed one after the other in the order of the
\* search response, each step of an issue ending before the next issue
\* starts, with at most one request in flight
C13_Sequential == [](C13_Inv) /\ C13_Step

\* three issues updated one after the other
C13_Witness ==
    /\ pc = "exited"
    /\ ~dryRun
    /\ N = MaxIssues
    /\ sent = [field |-> 1, search |-> 1, put |-> 3]
    /\ \A p \in Positions : Completed(p) /\ Len(writes[p]) = 1
    /\ inflight = {}

(***************************************************************************)
(* C14.  Display, then mutate.  displayTicketUpdate (index.ts 85) runs     *)
(* before the applyAll test of line 87 and before the prompt, so every     *)
(* updateCurrentStatus call of an iteration follows its display.           *)
(***************************************************************************)
\* position p was displayed with the value that write k of p carries
DisplayedBefore(p, k) ==
    /\ Len(shown[p]) = 1
    /\ shown[p][1].key = writes[p][k].key
    /\ shown[p][1].proposed = writes[p][k].value
    /\ \E c \in 1..Len(Clocks) : shown[p][1] = ExpectedDisplay(p, Clocks[c])

C14_Inv ==
    /\ \A p \in Positions : \A k \in 1..Len(writes[p]) : DisplayedBefore(p, k)
    /\ pc \in {"update", "updating"} => Len(shown[idx]) = 1
    /\ \A req \in inflight : req.kind = "put" => Len(shown[idx]) = 1

\* the step that starts a write call finds the display already made, in the
\* iteration of the same position
C14_CallStep ==
    [][pc # "searchWait" =>
         \A p \in Positions :
            /\ writes'[p] # writes[p] =>
                 (p = idx /\ shown[p] # <<>> /\ shown'[p] = shown[p])
            /\ shown'[p] # shown[p] => (p = idx /\ writes[p] = <<>>)]_vars

\* C14: every issue that receives an updateCurrentStatus call, the ones
\* applied automatically under applyAll included, had its current and its
\* proposed value displayed earlier in the same iteration
C14_DisplayFirst == [](C14_Inv) /\ C14_CallStep

\* an issue updated automatically under applyAll, after its display
C14_Witness ==
    /\ pc = "exited"
    /\ ~dryRun
    /\ applyAll
    /\ \E p \in Positions :
        /\ Len(writes[p]) = 1
        /\ writes[p][1].via = "auto"
        /\ results[p] = <<"resolved">>
        /\ prompts[p] = 0
        /\ DisplayedBefore(p, 1)

(***************************************************************************)
(* C15.  Termination of the interactive loop.  The program is one thread:  *)
(* it goes on whenever it can, the operator answers every prompt and the   *)
(* server answers every request.  The token and the clock owe nothing.     *)
(***************************************************************************)
\* the steps of the program, of the operator and of the server
Program ==
    \/ HandleUpdateAuth
    \/ SearchIssuesFieldId
    \/ FieldResponse
    \/ SearchRequest
    \/ SearchResponse
    \/ InteractiveSkip
    \/ InteractiveFetch
    \/ InteractiveDisplay
    \/ InteractiveAnswer
    \/ InteractiveDecide
    \/ UpdateCall
    \/ UpdateResponse
    \/ InteractiveSummary
    \/ DryRunFetch
    \/ DryRunDisplay
    \/ DryRunReport

FairSpec == Init /\ [][Next]_vars /\ WF_vars(Program)

\* the query of an interactive run has succeeded
InteractiveQueryDone == ~dryRun /\ searchResult = "ok"

\* position p went through one iteration of the loop, and no more
VisitedOnce(p) ==
    /\ p < idx
    /\ fetches[p] <= 1
    /\ Len(shown[p]) = fetches[p]
    /\ prompts[p] <= 1
    /\ Len(writes[p]) <= 1
    /\ Len(results[p]) = Len(writes[p])

\* the run has ended after one summary that follows the visit of every issue
Summarised ==
    /\ pc = "exited"
    /\ exitCode = 0
    /\ Len(summary) = 1
    /\ summary[1] = [updated |-> updatedCount, skipped |-> skippedCount]
    /\ \A p \in Positions : VisitedOnce(p)

\* the summary is printed once, after the last issue, and ends the run
C15_SummaryStep ==
    [][summary' # summary =>
         /\ summary = <<>>
         /\ idx = N + 1
         /\ \A p \in Positions : VisitedOnce(p)
         /\ summary' = <<[updated |-> updatedCount, skipped |-> skippedCount]>>
         /\ pc' = "exited"]_vars

\* the statement without the condition that the list is not empty
C15_EveryList == C15_SummaryStep /\ (InteractiveQueryDone ~> Summarised)

\* C15: when every prompt and every remote call returns, an interactive run
\* whose query returned at least one issue visits every issue of the list
\* exactly once and then prints exactly one summary, which gives
\* updatedCount and skippedCount
C15_Terminates ==
    C15_SummaryStep /\ ((InteractiveQueryDone /\ N >= 1) ~> Summarised)

\* a run over three issues has printed its summary
C15_Witness ==
    /\ Summarised
    /\ InteractiveQueryDone
    /\ N = MaxIssues
    /\ updatedCount = 1
    /\ skippedCount = 1

(***************************************************************************)
(* C16.  The counters.  updatedCount and skippedCount are declared as 0    *)
(* (index.ts 73-74) and touched only by ++.                                *)
(***************************************************************************)
\* the loop of processTicketsInteractive has not begun
BeforeLoop == pc \in {"start", "fieldId", "fieldWait", "search", "searchWait"}
                /\ searchResult # "ok"

C16_Inv ==
    /\ updatedCount \in Nat
    /\ skippedCount \in Nat
    /\ BeforeLoop => (updatedCount = 0 /\ skippedCount = 0)
    /\ updatedCount + skippedCount <= idx - 1

\* a step leaves a counter alone or adds one to it; a step that counts ends
\* the iteration of one issue and touches the other counter not
C16_CountStep ==
    [][/\ updatedCount' \in {updatedCount, updatedCount + 1}
       /\ skippedCount' \in {skippedCount, skippedCount + 1}
       /\ (updatedCount' + skippedCount') - (updatedCount + skippedCount) \in {0, 1}
       /\ <<updatedCount', skippedCount'>> # <<updatedCount, skippedCount>> =>
            (idx <= N /\ idx' = idx + 1)]_vars

\* C16: updatedCount and skippedCount start at zero, grow by one at a time,
\* at most one of them once per issue, and are never decremented or reset
C16_Counters == [](C16_Inv) /\ C16_CountStep

\* both counters have counted
C16_Witness ==
    /\ pc = "exited"
    /\ ~dryRun
    /\ N = MaxIssues
    /\ updatedCount = 2
    /\ skippedCount = 1
    /\ summary = <<[updated |-> 2, skipped |-> 1]>>

(***************************************************************************)
(* C17.  Consent.  updateCurrentStatus is called in three places: after    *)
(* the answers y/yes (index.ts 111), after a/all (126), and before any     *)
(* prompt when applyAll is set (90).  Each ends the iteration.             *)
(***************************************************************************)
\* the operator's consent to the write that starts at the current position
Consent ==
    \/ /\ answer \in AnswersYes
       /\ prompts[idx] = 1
       /\ via = "yes"
    \/ /\ answer \in AnswersAll
       /\ prompts[idx] = 1
       /\ via = "all"
       /\ applyAll
    \/ /\ answer = NoAnswer
       /\ prompts[idx] = 0
       /\ via = "auto"
       /\ applyAll
       /\ \E q \in 1..(idx - 1) : writes[q] # <<>> /\ writes[q][1].via = "all"

C17_Inv ==
    /\ \A p \in Positions :
        /\ Len(writes[p]) <= 1
        /\ writes[p] # <<>> =>
            /\ writes[p][1].via \in {"yes", "all", "auto"}
            /\ writes[p][1].via = "auto" <=> prompts[p] = 0
    /\ sent.put <= Cardinality({p \in Positions : writes[p] # <<>>})
    /\ pc \in {"update", "updating"} => Consent

\* a write call starts only at the current position, which has none yet, and
\* with the operator's consent
C17_CallStep ==
    [][pc # "searchWait" =>
         \A p \in Positions :
            writes'[p] # writes[p] =>
                /\ p = idx
                /\ ~dryRun
                /\ writes[p] = <<>>
                /\ Len(writes'[p]) = 1
                /\ writes'[p][1].via = via
                /\ Consent]_vars

\* C17: in interactive mode updateCurrentStatus is called for an issue only
\* when the operator answered y, yes, a or all at that issue or applyAll was
\* set before the issue was reached, and at most once per position
C17_Consent == [](C17_Inv) /\ C17_CallStep

\* declined, then all, then applied automatically; the last update failed
C17_Witness ==
    /\ pc = "exited"
    /\ ~dryRun
    /\ N = 3
    /\ prompts = <<1, 1, 0>>
    /\ writes[1] = <<>>
    /\ Len(writes[2]) = 1 /\ writes[2][1].via = "all"
    /\ Len(writes[3]) = 1 /\ writes[3][1].via = "auto"
    /\ results[3] = <<"rejected">>

(***************************************************************************)
(* C18.  The latches.  applyAll and skipAll are declared false (index.ts   *)
(* 71-72); applyAll = true is at line 123 and skipAll = true at line 140,  *)
(* both behind the prompt, which neither latch lets the loop reach again.  *)
(***************************************************************************)
C18_Inv ==
    /\ applyAll \in BOOLEAN
    /\ skipAll \in BOOLEAN
    /\ ~(applyAll /\ skipAll)
    /\ (BeforeLoop \/ dryRun) => (~applyAll /\ ~skipAll)
    /\ (applyAll \/ skipAll) => LastPrompted >= 1

\* a latch that is set stays set; a latch is set by the answer to a prompt
C18_LatchStep ==
    [][/\ applyAll => applyAll'
       /\ skipAll => skipAll'
       /\ (applyAll' /\ ~applyAll) =>
            (pc = "decide" /\ answer \in AnswersAll /\ ~skipAll)
       /\ (skipAll' /\ ~skipAll) =>
            (pc = "decide" /\ answer \in AnswersSkipAll /\ ~applyAll)]_vars

\* C18: applyAll and skipAll are false at first, each goes from false to
\* true only and is never reset, and they are never both true
C18_Latches == [](C18_Inv) /\ C18_LatchStep

\* applyAll set at the first issue has stayed set to the end of the list
C18_Witness ==
    /\ pc = "exited"
    /\ N = MaxIssues
    /\ idx = N + 1
    /\ applyAll
    /\ ~skipAll
    /\ LastPrompted = 1
    /\ \A p \in Positions : Len(writes[p]) = 1

(***************************************************************************)
(* C19.  Accounting.  Each iteration ends in exactly one of: update        *)
(* succeeded (updatedCount++), update failed (nothing counted), no update  *)
(* attempted (skippedCount++).                                             *)
(***************************************************************************)
\* the issues the loop is done with
Visited == 1..(idx - 1)

\* visited issues whose updateCurrentStatus call resolved
Succeeded == {p \in Visited : results[p] = <<"resolved">>}

\* visited issues whose updateCurrentStatus call rejected
Failed == {p \in Visited : results[p] = <<"rejected">>}

\* visited issues for which updateCurrentStatus was not called
NotAttempted == {p \in Visited : writes[p] = <<>>}

C19_Inv ==
    (~dryRun /\ searchResult = "ok") =>
        /\ Visited \subseteq Positions
        /\ updatedCount = Cardinality(Succeeded)
        /\ skippedCount = Cardinality(NotAttempted)
        /\ updatedCount + skippedCount + Cardinality(Failed) = Cardinality(Visited)
        /\ summary # <<>> =>
            /\ Cardinality(Visited) = N
            /\ summary[1].updated = updatedCount
            /\ summary[1].skipped = skippedCount
            /\ (summary[1].updated + summary[1].skipped = N) <=> (Failed = {})

\* the end of an iteration adds the issue to exactly one of the three groups
C19_IterationStep ==
    [][(~dryRun /\ idx' = idx + 1) =>
          LET outcome == <<updatedCount' - updatedCount,
                           skippedCount' - skippedCount,
                           Len(failures'[idx]) - Len(failures[idx])>>
          IN  /\ outcome \in {<<1, 0, 0>>, <<0, 1, 0>>, <<0, 0, 1>>}
              /\ outcome[1] = 1 <=> results'[idx] = <<"resolved">>
              /\ outcome[2] = 1 <=> writes'[idx] = <<>>
              /\ outcome[3] = 1 <=> results'[idx] = <<"rejected">>]_vars

\* C19: after each issue of an interactive run updatedCount is the number of
\* successful updateCurrentStatus calls, skippedCount the number of issues
\* without a call, and the two plus the failed calls make the number of
\* issues visited; the summary adds up to N exactly when no update failed
C19_Accounting == [](C19_Inv) /\ C19_IterationStep

\* one issue updated, one failed, one skipped: the summary adds up to 2 of 3
C19_Witness ==
    /\ pc = "exited"
    /\ ~dryRun
    /\ N = 3
    /\ Cardinality(Succeeded) = 1
    /\ Cardinality(Failed) = 1
    /\ Cardinality(NotAttempted) = 1
    /\ summary = <<[updated |-> 1, skipped |-> 1]>>

(***************************************************************************)
(* C20.  The value written.  newStatus is a const of the iteration         *)
(* (index.ts 83): built from the issue object of the search response,      *)
(* displayed, and passed unchanged to updateCurrentStatus.                 *)
(***************************************************************************)
\* the field value of position p in the list the search returned
Snapshot(p) == GetCurrentStatus(issues[p], currentStatusFieldId)

\* the value composed for position p when the clock reads Clocks[c]
Proposed(p, c) == BuildNewStatus(statusUpdate, Snapshot(p), datePrefix, Clocks[c])

C20_Inv ==
    /\ sent.search <= 1
    /\ \A req \in inflight : req.kind \in {"field", "search", "put"}
    /\ \A p \in Positions :
        /\ \A k \in 1..Len(shown[p]) :
            \E c \in 1..Len(Clocks) : shown[p][k].proposed = Proposed(p, c)
        /\ \A k \in 1..Len(writes[p]) :
            /\ Len(shown[p]) = 1
            /\ writes[p][k].value = shown[p][1].proposed
            /\ writes[p][k].key = issues[p].key
    /\ \A req \in inflight :
        req.kind = "put" =>
            /\ req.key = issues[idx].key
            /\ req.value = shown[idx][1].proposed

\* the list and the options of the run never change once the loop runs, and
\* a display, once made, is not affected by later writes
C20_FrameStep ==
    [][searchResult = "ok" =>
         /\ issues' = issues
         /\ statusUpdate' = statusUpdate
         /\ datePrefix' = datePrefix
         /\ sent'.search = sent.search
         /\ \A p \in Positions :
              /\ shown[p] # <<>> => shown'[p] = shown[p]
              /\ writes[p] # <<>> => writes'[p] = writes[p]]_vars

\* C20: the value of each updateCurrentStatus call is the proposed value
\* displayed for that issue, composed from the update text, the field value
\* of the issue as the search returned it, and the date-prefix flag; the
\* list is neither modified nor fetched again, so no write changes what is
\* proposed for another issue
C20_WrittenAsShown == [](C20_Inv) /\ C20_FrameStep

\* two issues holding the same text, displayed on either side of midnight
\* and both written: the second proposal still carries the text as searched
C20_Witness ==
    /\ pc = "exited"
    /\ ~dryRun
    /\ datePrefix
    /\ N >= 2
    /\ Snapshot(1) = JString(<<"o", "l", "d">>)
    /\ Snapshot(2) = JString(<<"o", "l", "d">>)
    /\ results[1] = <<"resolved">>
    /\ results[2] = <<"resolved">>
    /\ shown[1][1].proposed = Proposed(1, 1)
    /\ shown[2][1].proposed = Proposed(2, 2)
    /\ writes[1][1].value = Proposed(1, 1)
    /\ writes[2][1].value = Proposed(2, 2)
====
